---- MODULE Spec2Model ----
(***************************************************************************)
(* A model of Hidden_Markov_Model.ipynb: the HMM class (index registry,    *)
(* supervised training with add-one smoothing, greedy and Viterbi          *)
(* decoding), get_perplexity and the hard-EM loop.                         *)
(*                                                                         *)
(* Numbers.  The tables hold base-2 logarithms of probabilities.  A        *)
(* log-probability is kept exactly, as the record [n |-> a, d |-> b]       *)
(* standing for the real number log2(a/b): adding two logarithms           *)
(* multiplies the fractions, comparing two logarithms compares the         *)
(* fractions.  [n |-> 1, d |-> 1] is the float 0.0 and [n |-> 0, d |-> 1]  *)
(* is -inf.  Floating-point rounding is not modelled.                      *)
(*                                                                         *)
(* Arrays are functions on 0..n-1, with the ids of the code.  Python       *)
(* lists are sequences: the list index i is the sequence index i+1.        *)
(* An untagged token "w" is the tuple <<w>>, a tagged token ("w", "s") is  *)
(* the tuple <<w, s>>.                                                     *)
(***************************************************************************)
EXTENDS Integers, Sequences, FiniteSets, TLC

VARIABLES heap, hmm, data, ret, ncalls, pc, em

vars == <<heap, hmm, data, ret, ncalls, pc, em>>

---------------------------------------------------------------------------
(* Bounds of the model. *)

\* tokens in a corpus handed to train (training specification)
MaxTokens == 3
\* sentences in a corpus handed to train
MaxSents == 2
\* calls of train on one object
MaxTrains == 2
\* words in a vocabulary list (registry specification)
MaxVocab == 2
\* length of a sentence handed to data2i (registry specification)
MaxEncLen == 2
\* tokens in the corpus a decoded model is trained on (decoding specification)
DecTokens == 2
\* length of a sentence handed to a decoder
MaxLen == 2

UNK == "<UNK>"

\* word strings: "a" and "b" are vocabulary words, "z" is in no vocabulary
\* of the training and decoding specifications
WordPool == {"a", "b", "z"}
TagPool == {"N", "V"}
Vocab == <<"a", "b">>

---------------------------------------------------------------------------
(* Sequences and arrays. *)

Range(s) == {s[i] : i \in DOMAIN s}

SeqsUpTo(S, n) == UNION {[1..k -> S] : k \in 0..n}

InjSeqsUpTo(S, n) == {s \in SeqsUpTo(S, n) : \A i, j \in DOMAIN s : s[i] = s[j] => i = j}

RECURSIVE SumSeq(_)
SumSeq(s) == IF s = <<>> THEN 0 ELSE s[1] + SumSeq(Tail(s))

\* np.sum of a one-dimensional array of counts
RECURSIVE SumTo(_, _)
SumTo(row, k) == IF k < 0 THEN 0 ELSE row[k] + SumTo(row, k - 1)

\* an array as the table of its entries: each entry is computed once, when
\* the array is built, as numpy does
Table(f) == f @@ f

NpSum(row) == SumTo(row, Cardinality(DOMAIN row) - 1)

---------------------------------------------------------------------------
(* Exact log-probabilities. *)

RECURSIVE GCD(_, _)
GCD(a, b) == IF b = 0 THEN a ELSE GCD(b, a % b)

Zero == [n |-> 1, d |-> 1]
NegInf == [n |-> 0, d |-> 1]

Norm(a, b) == IF a = 0 THEN NegInf ELSE [n |-> a \div GCD(a, b), d |-> b \div GCD(a, b)]

\* x + y on logarithms
LAdd(x, y) == Norm(x.n * y.n, x.d * y.d)

\* a/b < c/d for a, c >= 0 and b, d > 0, by the continued-fraction expansions
RECURSIVE FracLess(_, _, _, _)
FracLess(a, b, c, d) ==
    LET qa == a \div b
        qc == c \div d
        ra == a % b
        rc == c % d
    IN  IF qa # qc THEN qa < qc
        ELSE IF rc = 0 THEN FALSE
        ELSE IF ra = 0 THEN TRUE
        ELSE FracLess(d, rc, b, ra)

\* x < y and x = y on logarithms
LLess(x, y) == FracLess(x.n, x.d, y.n, y.d)
LEq(x, y) == ~LLess(x, y) /\ ~LLess(y, x)

\* np.log2(c / total) of a smoothed count and a row sum
Log2Div(c, total) == [n |-> c, d |-> total]

---------------------------------------------------------------------------
(* HMM.__init__ and HMM.data2i. *)

\* {w: i for i, w in enumerate(lst)}: a later equal key overwrites an earlier one
DictOf(lst) ==
    [w \in Range(lst) |->
        (CHOOSE i \in DOMAIN lst : lst[i] = w /\ \A j \in DOMAIN lst : lst[j] = w => j <= i) - 1]

\* np.zeros((rows, cols))
NpZeros(rows, cols) == [r \in 0..(rows - 1) |-> [c \in 0..(cols - 1) |-> Zero]]

HMMInit(emissions, states) ==
    LET ems == emissions \o <<UNK>>
    IN  [emissions |-> ems,
         states |-> states,
         w2i |-> DictOf(ems),
         s2i |-> DictOf(states),
         init_prob |-> NpZeros(1, Len(states)),
         emission_prob |-> NpZeros(Len(states), Len(ems)),
         transition_prob |-> NpZeros(Len(states), Len(states))]

\* self.i2w and self.i2s are the lists self.emissions and self.states
I2W(self, i) == self.emissions[i + 1]
I2S(self, i) == self.states[i + 1]

Raise(e) == [ok |-> FALSE, err |-> e, val |-> <<>>]
Return(v) == [ok |-> TRUE, err |-> "", val |-> v]

\* type(tok) == type("")
IsStr(tok) == Len(tok) = 1

\* a registry that gives an unseen word the id 0
EncodeWordFirst(self, w) == IF w \in DOMAIN self.w2i THEN self.w2i[w] ELSE 0

\* w = w if w in self.w2i else UNK; self.w2i[w]
EncodeWord(self, w) == IF w \in DOMAIN self.w2i THEN self.w2i[w] ELSE self.w2i[UNK]

\* [[self.w2i[w] for w in sent] for sent in data], with UNK for an unseen word
EncodeWords(self, data_) ==
    Return([e \in DOMAIN data_ |->
               [p \in DOMAIN data_[e] |-> EncodeWord(self, data_[e][p][1])]])

\* [[(self.w2i[w], self.s2i[s]) for w, s in sent] for sent in data]
EncodePairs(self, data_) ==
    IF \E e \in DOMAIN data_ : \E p \in DOMAIN data_[e] :
           data_[e][p][2] \notin DOMAIN self.s2i
    THEN Raise("KeyError")
    ELSE Return([e \in DOMAIN data_ |->
                    [p \in DOMAIN data_[e] |->
                        <<EncodeWord(self, data_[e][p][1]), self.s2i[data_[e][p][2]]>>]])

\* an encoding that takes a corpus without a first token for an untagged one
data2iNoSniff(self, data_) ==
    IF Len(data_) = 0 \/ Len(data_[1]) = 0 THEN EncodeWords(self, data_)
    ELSE IF IsStr(data_[1][1]) THEN EncodeWords(self, data_)
    ELSE EncodePairs(self, data_)

\* data[0][0] is read to tell an untagged corpus from a tagged one
data2i(self, data_) ==
    IF Len(data_) = 0 \/ Len(data_[1]) = 0 THEN Raise("IndexError")
    ELSE IF IsStr(data_[1][1]) THEN EncodeWords(self, data_)
    ELSE EncodePairs(self, data_)

---------------------------------------------------------------------------
(* HMM.train. *)

\* a reset that keeps the counts of the training before
KeepFill(arr) == [r \in DOMAIN arr |-> [c \in DOMAIN arr[r] |-> arr[r][c].n - 1]]

\* arr[:] = 0 : every cell of the array the object holds becomes the count 0
ZeroFill(arr) == [r \in DOMAIN arr |-> [c \in DOMAIN arr[r] |-> 0]]

\* the body of "for word, state in sentence", from position p on
RECURSIVE CountSentence(_, _, _, _)
CountSentence(cnt, sentence, p, flag) ==
    IF p > Len(sentence) THEN cnt
    ELSE LET word == sentence[p][1]
             state == sentence[p][2]
             c1 == [cnt EXCEPT !.emission_prob[state][word] = @ + 1]
             c2 == IF flag # -1 THEN [c1 EXCEPT !.transition_prob[flag][state] = @ + 1] ELSE c1
             f2 == IF flag # -1 THEN state ELSE flag
             c3 == IF f2 = -1 THEN [c2 EXCEPT !.init_prob[0][state] = @ + 1] ELSE c2
             f3 == IF f2 = -1 THEN state ELSE f2
         IN  CountSentence(c3, sentence, p + 1, f3)

\* "for sentence in self.data2i(data)", from sentence e on; flag starts at -1
RECURSIVE CountCorpus(_, _, _)
CountCorpus(cnt, idx, e) ==
    IF e > Len(idx) THEN cnt
    ELSE CountCorpus(CountSentence(cnt, idx[e], 1, -1), idx, e + 1)

\* an array of counts read as an array of logarithms: the float c is log2(2^c)
FloatOf(arr) == [r \in DOMAIN arr |-> [c \in DOMAIN arr[r] |-> [n |-> 2 ^ arr[r][c], d |-> 1]]]

\* no smoothing
AddNone(arr) == arr

\* arr = arr + 1
AddOne(arr) == Table([r \in DOMAIN arr |-> Table([c \in DOMAIN arr[r] |-> arr[r][c] + 1])])

\* row = np.log2(row / np.sum(row))
LogNormRow(row) == Table([c \in DOMAIN row |-> Log2Div(row[c], NpSum(row))])

\* the object after self.train(data), and whether the call raised
train(self, data_) ==
    LET cleared == [init_prob |-> ZeroFill(self.init_prob),
                    emission_prob |-> ZeroFill(self.emission_prob),
                    transition_prob |-> ZeroFill(self.transition_prob)]
        enc == data2i(self, data_)
        cnt == CountCorpus(cleared, enc.val, 1)
        ini == AddOne(cnt.init_prob)
        emi == AddOne(cnt.emission_prob)
        tra == AddOne(cnt.transition_prob)
    IN  IF ~enc.ok
        THEN [self |-> [self EXCEPT
                  !.init_prob = FloatOf(cleared.init_prob),
                  !.emission_prob = FloatOf(cleared.emission_prob),
                  !.transition_prob = FloatOf(cleared.transition_prob)],
              ok |-> FALSE, err |-> enc.err]
        ELSE [self |-> [self EXCEPT
                  !.init_prob = [r \in DOMAIN ini |-> LogNormRow(ini[r])],
                  !.emission_prob = [r \in DOMAIN emi |-> LogNormRow(emi[r])],
                  !.transition_prob = [r \in DOMAIN tra |-> LogNormRow(tra[r])]],
              ok |-> TRUE, err |-> ""]

---------------------------------------------------------------------------
(* Decoding. *)

\* the last index holding the maximum
ArgMaxLast(row) ==
    CHOOSE k \in DOMAIN row :
        /\ \A m \in DOMAIN row : ~LLess(row[k], row[m])
        /\ \A m \in DOMAIN row : m > k => LLess(row[m], row[k])

\* np.argmax of a one-dimensional array: the first index holding the maximum
ArgMax(row) ==
    CHOOSE k \in DOMAIN row :
        /\ \A m \in DOMAIN row : ~LLess(row[k], row[m])
        /\ \A m \in DOMAIN row : m < k => LLess(row[m], row[k])

\* np.max of a one-dimensional array
Max(row) == row[ArgMax(row)]

\* a view of arr: a later += on it writes to arr
NpView(arr) == [arr |-> arr, alias |-> TRUE]

\* np.array(arr): a copy, so a later += on it does not write to arr
NpArray(arr) == [arr |-> arr, alias |-> FALSE]

\* [(self.i2w[w], self.i2s[s]) for w, s in zip(ex, output)]
Tagged(self, ex, output) == [p \in DOMAIN ex |-> <<I2W(self, ex[p]), I2S(self, output[p])>>]

\* the column of the chosen state instead of its row
NextDistrColumn(self, log_prob, best) ==
    [r \in 0..0 |->
        Table([s \in DOMAIN self.transition_prob[best] |->
                  LAdd(log_prob, self.transition_prob[s][best])])]

\* log_prob + self.transition_prob[[best], :] : an array of shape (1, S)
NextDistr(self, log_prob, best) ==
    [r \in 0..0 |->
        Table([s \in DOMAIN self.transition_prob[best] |->
                  LAdd(log_prob, self.transition_prob[best][s])])]

\* the body of "for w in ex" of greedy_decode, from position p on; trace
\* collects state_distr as it is when argmax reads it
RECURSIVE GreedyLoop(_, _, _, _, _, _, _)
GreedyLoop(self, ex, p, state_distr, output, log_prob, trace) ==
    IF p > Len(ex)
    THEN [self |-> self, output |-> output, log_prob |-> log_prob, trace |-> trace]
    ELSE LET w == ex[p]
             sd == Table([s \in DOMAIN state_distr.arr[0] |->
                             LAdd(state_distr.arr[0][s], self.emission_prob[s][w])])
             self1 == IF state_distr.alias THEN [self EXCEPT !.init_prob[0] = sd] ELSE self
             best == ArgMax(sd)
             lp == Max(sd)
         IN  GreedyLoop(self1, ex, p + 1, [arr |-> NextDistr(self1, lp, best), alias |-> FALSE],
                        Append(output, best), lp, Append(trace, sd))

NoResult == [op |-> "", arg |-> <<>>, ok |-> FALSE, err |-> "", idx |-> <<>>, out |-> <<>>,
             log_prob |-> Zero, output |-> <<>>, trellis |-> <<>>, back_pointers |-> <<>>,
             trace |-> <<>>]

greedy_decode(self, ex) ==
    LET enc == data2i(self, <<ex>>)
        g == GreedyLoop(self, enc.val[1], 1, NpArray(self.init_prob), <<>>, Zero, <<>>)
    IN  IF ~enc.ok THEN [self |-> self, res |-> [NoResult EXCEPT !.err = enc.err]]
        ELSE [self |-> g.self,
              res |-> [NoResult EXCEPT !.ok = TRUE, !.out = Tagged(self, enc.val[1], g.output),
                           !.log_prob = g.log_prob, !.output = g.output, !.trace = g.trace]]

\* np.full((rows, cols), v)
NpFull(rows, cols, v) == [r \in 0..(rows - 1) |-> [c \in 0..(cols - 1) |-> v]]

\* arr[:, i]
Column(arr, i) == Table([r \in DOMAIN arr |-> arr[r][i]])

\* arr[:, i] = col
SetColumn(arr, i, col) == Table([r \in DOMAIN arr |-> Table([arr[r] EXCEPT ![i] = col[r]])])

\* the while loop of extract_output
RECURSIVE ExtractLoop(_, _, _)
ExtractLoop(back_pointers, T, output) ==
    IF Len(output) < T
    THEN ExtractLoop(back_pointers, T,
                     Append(output, back_pointers[output[Len(output)]][T - Len(output)]))
    ELSE output

\* output[::-1]
Reversed(s) == [p \in DOMAIN s |-> s[Len(s) + 1 - p]]

extract_output(self, trellis, back_pointers, ex) ==
    LET T == Len(ex)
        last == Column(trellis, T - 1)
        output == Reversed(ExtractLoop(back_pointers, T, <<ArgMax(last)>>))
    IN  [NoResult EXCEPT !.ok = TRUE, !.out = Tagged(self, ex, output), !.log_prob = Max(last),
             !.output = output, !.trellis = trellis, !.back_pointers = back_pointers]

\* trellis[:,0] = self.init_prob[0,:] + self.emission_prob[:, ex[0]]
FirstColumn(self, ex) ==
    Table([j \in DOMAIN self.emission_prob |->
              LAdd(self.init_prob[0][j], self.emission_prob[j][ex[1]])])

\* candidates that leave the transition out
CandidatesNoTransition(self, ex, trellis, i, j) ==
    Table([k \in DOMAIN self.transition_prob |->
              LAdd(trellis[k][i - 1], self.emission_prob[j][ex[i + 1]])])

\* the list x of viterbi_decode for the cell (j, i)
Candidates(self, ex, trellis, i, j) ==
    Table([k \in DOMAIN self.transition_prob |->
              LAdd(LAdd(trellis[k][i - 1], self.transition_prob[k][j]),
                   self.emission_prob[j][ex[i + 1]])])

\* "for i in range(1, len(ex))" of viterbi_decode, from column i on
RECURSIVE ViterbiLoop(_, _, _, _, _)
ViterbiLoop(self, ex, i, trellis, back_pointers) ==
    IF i >= Len(ex) THEN [trellis |-> trellis, back_pointers |-> back_pointers]
    ELSE ViterbiLoop(self, ex, i + 1,
            SetColumn(trellis, i,
                [j \in DOMAIN trellis |-> Max(Candidates(self, ex, trellis, i, j))]),
            SetColumn(back_pointers, i,
                [j \in DOMAIN trellis |-> ArgMax(Candidates(self, ex, trellis, i, j))]))

viterbi_decode(self, ex) ==
    LET enc == data2i(self, <<ex>>)
        ids == enc.val[1]
        S == Len(self.states)
        t0 == SetColumn(NpFull(S, Len(ids), NegInf), 0, FirstColumn(self, ids))
        v == ViterbiLoop(self, ids, 1, t0, NpFull(S, Len(ids), -1))
    IN  IF ~enc.ok THEN [NoResult EXCEPT !.err = enc.err]
        ELSE IF Len(ids) = 0 THEN [NoResult EXCEPT !.err = "IndexError"]
        ELSE extract_output(self, v.trellis, v.back_pointers, ids)

\* the transposition left out
NotTransposed(arr) == arr

\* arr.T
Transposed(arr) == Table([r \in DOMAIN arr |-> Table([c \in DOMAIN arr |-> arr[c][r]])])

\* (trellis[:, i-1] + self.transition_prob.T + self.emission_prob[:, ex[i]].reshape(-1, 1)):
\* the vector is added along the last axis, the reshaped column along the first
ProbMatrix(self, ex, trellis, i) ==
    LET vec == Column(trellis, i - 1)
        tT == Transposed(self.transition_prob)
        col == Column(self.emission_prob, ex[i + 1])
    IN  Table([a \in DOMAIN tT |->
                  Table([b \in DOMAIN tT[a] |-> LAdd(LAdd(vec[b], tT[a][b]), col[a])])])

\* "for i in range(1, len(ex))" of fast_viterbi_decode, from column i on
RECURSIVE FastViterbiLoop(_, _, _, _, _)
FastViterbiLoop(self, ex, i, trellis, back_pointers) ==
    IF i >= Len(ex) THEN [trellis |-> trellis, back_pointers |-> back_pointers]
    ELSE LET prob == ProbMatrix(self, ex, trellis, i)
         IN  FastViterbiLoop(self, ex, i + 1,
                SetColumn(trellis, i, [a \in DOMAIN prob |-> Max(prob[a])]),
                SetColumn(back_pointers, i, [a \in DOMAIN prob |-> ArgMax(prob[a])]))

fast_viterbi_decode(self, ex) ==
    LET enc == data2i(self, <<ex>>)
        ids == enc.val[1]
        S == Len(self.states)
        t0 == SetColumn(NpFull(S, Len(ids), NegInf), 0, FirstColumn(self, ids))
        v == FastViterbiLoop(self, ids, 1, t0, NpFull(S, Len(ids), -1))
    IN  IF ~enc.ok THEN [NoResult EXCEPT !.err = enc.err]
        ELSE IF Len(ids) = 0 THEN [NoResult EXCEPT !.err = "IndexError"]
        ELSE extract_output(self, v.trellis, v.back_pointers, ids)

---------------------------------------------------------------------------
(* Inputs. *)

TaggedTokens == {<<w, t>> : w \in WordPool, t \in TagPool}
Tokens(words) == {<<w>> : w \in words}

\* the corpora of exactly m sentences and at most t tokens; empty sentences
\* only where allowEmpty
RECURSIVE CorporaOf(_, _, _, _)
CorporaOf(toks, m, t, allowEmpty) ==
    IF m = 0 THEN {<<>>}
    ELSE UNION {{<<s>> \o c : s \in [1..k -> toks], c \in CorporaOf(toks, m - 1, t - k, allowEmpty)} :
                    k \in (IF allowEmpty THEN 0 ELSE 1)..t}

\* corpora handed to train in the training specification
TrainCorpora == UNION {CorporaOf(TaggedTokens, m, MaxTokens, TRUE) : m \in 0..MaxSents}

\* corpora the decoded models are trained on
DecCorpora == UNION {CorporaOf(TaggedTokens, m, DecTokens, FALSE) : m \in 0..DecTokens}

\* sentences handed to the decoders
DecSentences == SeqsUpTo(Tokens({"a", "z"}), MaxLen)

TrainTagLists == {<<"N", "V">>, <<"V", "N">>, <<"N">>}
DecTagList == <<"N", "V", "X">>

---------------------------------------------------------------------------
(* The calls on one HMM object. *)

self_ == heap[hmm]

NoEM == [phase |-> "none"]

\* hmm.train(data), at most limit times
TrainCall(limit) ==
    /\ pc = "api"
    /\ ncalls < limit
    /\ LET r == train(self_, data)
       IN  /\ heap' = [heap EXCEPT ![hmm] = r.self]
           /\ ret' = [NoResult EXCEPT !.op = "train", !.arg = data, !.ok = r.ok, !.err = r.err]
    /\ ncalls' = ncalls + 1
    /\ UNCHANGED <<hmm, data, pc, em>>

\* hmm.data2i([ex])
Data2iCall(ex) ==
    /\ pc = "api"
    /\ ret.op \in {"", "train"}
    /\ LET r == data2i(self_, <<ex>>)
       IN  ret' = [NoResult EXCEPT !.op = "data2i", !.arg = ex, !.ok = r.ok, !.err = r.err,
                       !.idx = r.val]
    /\ UNCHANGED <<heap, hmm, data, ncalls, pc, em>>

\* hmm.greedy_decode(ex)
GreedyCall(ex) ==
    /\ pc = "api"
    /\ ret.op \in {"", "train"}
    /\ LET r == greedy_decode(self_, ex)
       IN  /\ heap' = [heap EXCEPT ![hmm] = r.self]
           /\ ret' = [r.res EXCEPT !.op = "greedy_decode", !.arg = ex]
    /\ UNCHANGED <<hmm, data, ncalls, pc, em>>

\* hmm.viterbi_decode(ex)
ViterbiCall(ex) ==
    /\ pc = "api"
    /\ ret.op \in {"", "train"}
    /\ ret' = [viterbi_decode(self_, ex) EXCEPT !.op = "viterbi_decode", !.arg = ex]
    /\ UNCHANGED <<heap, hmm, data, ncalls, pc, em>>

\* hmm.fast_viterbi_decode(ex)
FastViterbiCall(ex) ==
    /\ pc = "api"
    /\ ret.op \in {"", "train"}
    /\ ret.op \in {"", "train"}
    /\ ret' = [fast_viterbi_decode(self_, ex) EXCEPT !.op = "fast_viterbi_decode", !.arg = ex]
    /\ UNCHANGED <<heap, hmm, data, ncalls, pc, em>>

\* the caller is done with the result of a data2i or decoder call
Drop ==
    /\ pc = "api"
    /\ ret.op \notin {"", "train"}
    /\ ret' = NoResult
    /\ UNCHANGED <<heap, hmm, data, ncalls, pc, em>>

InitApi(emissions, states, corpus) ==
    /\ heap = <<HMMInit(emissions, states)>>
    /\ hmm = 1
    /\ data = corpus
    /\ ret = NoResult
    /\ ncalls = 0
    /\ pc = "api"
    /\ em = NoEM

\* the registry: an object built from any list of distinct words
InitReg ==
    \E emissions \in InjSeqsUpTo(WordPool, MaxVocab) :
        \E states \in InjSeqsUpTo(TagPool, 2) \ {<<>>} : InitApi(emissions, states, <<>>)

NextReg ==
    \/ \E ex \in SeqsUpTo(Tokens(WordPool \cup {UNK}), MaxEncLen) : Data2iCall(ex)
    \/ Drop

SpecReg == InitReg /\ [][NextReg]_vars

\* training: one object, trained on one corpus, again and again
InitTrain ==
    \E states \in TrainTagLists : \E corpus \in TrainCorpora : InitApi(Vocab, states, corpus)

NextTrain == TrainCall(MaxTrains)

SpecTrain == InitTrain /\ [][NextTrain]_vars

\* decoding: one object, trained once, decoded with in any order
InitDecode == \E corpus \in DecCorpora : InitApi(Vocab, DecTagList, corpus)

NextDecode ==
    \/ TrainCall(1)
    \/ \E ex \in DecSentences : GreedyCall(ex)
    \/ \E ex \in DecSentences : ViterbiCall(ex)
    \/ \E ex \in DecSentences : FastViterbiCall(ex)
    \/ Drop

SpecDecode == InitDecode /\ [][NextDecode]_vars

---------------------------------------------------------------------------
(* Natural numbers of any size, as sequences of limbs, least limb first and *)
(* no leading zero limb: the powers get_perplexity needs do not fit 32-bit  *)
(* integers.                                                                *)

Limb == 10 ^ 3

RECURSIVE BigOf(_)
BigOf(x) == IF x = 0 THEN <<>> ELSE <<x % Limb>> \o BigOf(x \div Limb)

\* a * k + carry for a number k below 2^31 / Limb
RECURSIVE BigMulSmall(_, _, _)
BigMulSmall(a, k, carry) ==
    IF a = <<>> THEN BigOf(carry)
    ELSE <<(a[1] * k + carry) % Limb>> \o BigMulSmall(Tail(a), k, (a[1] * k + carry) \div Limb)

\* a * k^e
RECURSIVE BigMulPow(_, _, _)
BigMulPow(a, k, e) == IF e = 0 THEN a ELSE BigMulPow(BigMulSmall(a, k, 0), k, e - 1)

RECURSIVE BigLessFrom(_, _, _)
BigLessFrom(a, b, i) ==
    IF i = 0 THEN FALSE
    ELSE IF a[i] # b[i] THEN a[i] < b[i]
    ELSE BigLessFrom(a, b, i - 1)

BigLess(a, b) == IF Len(a) # Len(b) THEN Len(a) < Len(b) ELSE BigLessFrom(a, b, Len(a))

\* a + b + carry
RECURSIVE BigAdd(_, _, _)
BigAdd(a, b, carry) ==
    IF a = <<>> /\ b = <<>> THEN BigOf(carry)
    ELSE LET x == IF a = <<>> THEN 0 ELSE a[1]
             y == IF b = <<>> THEN 0 ELSE b[1]
         IN  <<(x + y + carry) % Limb>>
             \o BigAdd(IF a = <<>> THEN a ELSE Tail(a), IF b = <<>> THEN b ELSE Tail(b),
                       (x + y + carry) \div Limb)

\* a * Limb
BigShift(a) == IF a = <<>> THEN a ELSE <<0>> \o a

\* a * b
RECURSIVE BigMul(_, _)
BigMul(a, b) ==
    IF a = <<>> \/ b = <<>> THEN <<>>
    ELSE BigAdd(IF b[1] = 0 THEN <<>> ELSE BigMulSmall(a, b[1], 0),
                BigShift(BigMul(a, Tail(b))), 0)

\* a^e
RECURSIVE BigPow(_, _)
BigPow(a, e) == IF e = 0 THEN BigOf(1) ELSE BigMul(a, BigPow(a, e - 1))

---------------------------------------------------------------------------
(* get_perplexity. *)

\* PERPLEXITY_TH = 0.1, as the fraction ThNum / ThDen
ThNum == 1
ThDen == 10

\* a perplexity is compared with the threshold in units of 1 / PPScale
PPScale == 1000

LCM(a, b) == (a * b) \div GCD(a, b)

RECURSIVE LcmLens(_)
LcmLens(data_) == IF data_ = <<>> THEN 1 ELSE LCM(Len(data_[1][1]), LcmLens(Tail(data_)))

\* the product over the pairs (sent, log_prob) of 2^(-log_prob * e/len(sent)),
\* as a fraction of two numbers of any size
RECURSIVE InvProb(_, _, _)
InvProb(data_, e, acc) ==
    IF data_ = <<>> THEN acc
    ELSE InvProb(Tail(data_), e,
                 [num |-> BigMulPow(acc.num, data_[1][2].d, e \div Len(data_[1][1])),
                  den |-> BigMulPow(acc.den, data_[1][2].n, e \div Len(data_[1][1]))])

Inf == [inf |-> TRUE, num |-> <<>>, den |-> <<>>, k |-> 1]

\* 2**((-1/len(data))*sum_prob), kept exactly as the k-th root of num/den
\* with k = len(data) * (the least common multiple of the sentence lengths);
\* -1/len(data) divides by zero on an empty list.  Every sent is the output
\* of a decoder, so it has a token.
get_perplexity(data_) ==
    IF Len(data_) = 0 THEN Raise("ZeroDivisionError")
    ELSE LET r == InvProb(data_, LcmLens(data_), [num |-> BigOf(1), den |-> BigOf(1)])
         IN  Return([inf |-> FALSE, num |-> r.num, den |-> r.den,
                     k |-> Len(data_) * LcmLens(data_)])

\* m / PPScale <= p, for a finite perplexity p
AtMost(m, p) == ~BigLess(BigMulPow(p.num, PPScale, p.k), BigMulPow(p.den, m, p.k))

\* the largest m in lo..hi-1 with m / PPScale <= p, given lo / PPScale <= p < hi / PPScale
RECURSIVE Bisect(_, _, _)
Bisect(p, lo, hi) ==
    IF hi - lo <= 1 THEN lo
    ELSE IF AtMost((lo + hi) \div 2, p) THEN Bisect(p, (lo + hi) \div 2, hi)
    ELSE Bisect(p, lo, (lo + hi) \div 2)

RECURSIVE Above(_, _)
Above(p, hi) == IF AtMost(hi, p) THEN Above(p, 2 * hi) ELSE hi

\* the perplexity p in units of 1 / PPScale, rounded down
Fixed(p) == Bisect(p, 0, Above(p, PPScale))

\* p <= q for two finite perplexities, decided exactly: with p the p.k-th
\* root of p.num/p.den and q the q.k-th root of q.num/q.den, p <= q iff
\* p.num^q.k * q.den^p.k <= q.num^p.k * p.den^q.k
PPLeq(p, q) ==
    ~BigLess(BigMul(BigPow(q.num, p.k), BigPow(p.den, q.k)),
             BigMul(BigPow(p.num, q.k), BigPow(q.den, p.k)))

\* old_perplexity - new_perplexity
Minus(old, new) == IF old.inf THEN [inf |-> TRUE, v |-> 0] ELSE [inf |-> FALSE, v |-> Fixed(old) - Fixed(new)]

\* delta > PERPLEXITY_TH
ExceedsTh(delta) == delta.inf \/ delta.v * ThDen > ThNum * PPScale

---------------------------------------------------------------------------
(* The notebook: the baseline cell, the hard EM cell and the final cell. *)

\* sentences of the corpus (train and test split together)
EMSents == 2
\* tokens of the corpus
EMTokens == 3
\* the same for the notebook run on a wider corpus
WideSents == 3
WideTokens == 4

INV_TRAIN_SAMPLING_RATE == 5000

\* the (sentence, position) pairs of a corpus
Positions(corpus) == UNION {{<<e, p>> : p \in DOMAIN corpus[e]} : e \in DOMAIN corpus}

\* list(set(...)): the elements of a set in an order the code does not fix
ListOfSet(S) == {s \in [1..Cardinality(S) -> S] : Range(s) = S}

\* [sent for i, sent in enumerate(train_set) if i % INV_TRAIN_SAMPLING_RATE == 0]
RECURSIVE Sampled(_, _)
Sampled(train_set, i) ==
    IF i >= Len(train_set) THEN <<>>
    ELSE (IF i % INV_TRAIN_SAMPLING_RATE = 0 THEN <<train_set[i + 1]>> ELSE <<>>)
         \o Sampled(train_set, i + 1)

WordsOf(corpus) == {corpus[x[1]][x[2]][1] : x \in Positions(corpus)}
\* every tag there is, whatever the corpus holds
TagsOfPool(corpus) == TagPool

TagsOf(corpus) == {corpus[x[1]][x[2]][2] : x \in Positions(corpus)}

\* hmm = HMM(emissions, states); hmm.train(corpus): the new object is the last
\* of the heap
NewTrained(emissions, states, corpus) == train(HMMInit(emissions, states), corpus)

\* [viterbi_decode(sent) for sent in input], from sentence i on: the pairs
\* (output, log_prob), or the error of the first call that raises
RECURSIVE DecodeAll(_, _, _)
DecodeAll(self, input, i) ==
    IF i > Len(input) THEN Return(<<>>)
    ELSE LET r == viterbi_decode(self, input[i])
             rest == DecodeAll(self, input, i + 1)
         IN  IF ~r.ok THEN Raise(r.err)
             ELSE IF ~rest.ok THEN rest
             ELSE Return(<<<<r.out, r.log_prob>>>> \o rest.val)

\* the notebook before its first model is built: the corpus is read and split
\* into the train and the test sentences (the first k sentences and the
\* rest), the seed set is sampled, the vocabulary and the tags are listed.
\* Of the tags of the corpus only those of the seed set are read.
InitEMOf(sents, tokens) ==
    \E m \in 0..sents :
      \E corpus \in CorporaOf(Tokens({"a", "b"}), m, tokens, TRUE) :
        \E k \in 0..m :
          \E first \in (IF k = 0 THEN {<<>>} ELSE [1..Len(corpus[1]) -> TagPool]) :
            LET train_input == SubSeq(corpus, 1, k)
                test_input == SubSeq(corpus, k + 1, m)
                train_set == [e \in 1..k |->
                                 [p \in DOMAIN corpus[e] |->
                                     <<corpus[e][p][1], IF e = 1 THEN first[p] ELSE "N">>]]
                mini_train_set == Sampled(train_set, 0)
            IN  \E vocab \in ListOfSet(WordsOf(corpus)) :
                  \E tags \in ListOfSet(TagsOf(mini_train_set)) :
                    /\ heap = <<>>
                    /\ hmm = 0
                    /\ data = <<>>
                    /\ ret = NoResult
                    /\ ncalls = 0
                    /\ pc = "baseline"
                    /\ em = [vocab |-> vocab, tags |-> tags, mini_train_set |-> mini_train_set,
                             train_input |-> train_input, test_input |-> test_input,
                             old_perplexity |-> Inf, delta |-> [inf |-> TRUE, v |-> 0],
                             new_perplexity |-> Inf, pred_train |-> <<>>, pred_test |-> <<>>,
                             evaluated |-> 0, printed |-> <<>>, err |-> ""]

\* hmm = HMM(vocab, tags); hmm.train(mini_train_set), of the baseline cell
\* (next = "baseline_decode") and of the hard EM cell (next = "while")
BuildAndTrain(at, next) ==
    /\ pc = at
    /\ LET r == NewTrained(em.vocab, em.tags, em.mini_train_set)
       IN  /\ heap' = Append(heap, r.self)
           /\ hmm' = Len(heap) + 1
           /\ pc' = IF r.ok THEN next ELSE "error"
           /\ em' = [em EXCEPT !.err = r.err, !.old_perplexity = Inf,
                                !.delta = [inf |-> TRUE, v |-> 0]]
    /\ ret' = NoResult
    /\ UNCHANGED <<data, ncalls>>

Baseline == BuildAndTrain("baseline", "baseline_decode")

EMStart == BuildAndTrain("baseline_decode", "while")

\* a loop test that has no way out of the loop
LoopTestNoExit ==
    /\ pc = "while"
    /\ ExceedsTh(em.delta)
    /\ pc' = "decode"
    /\ UNCHANGED <<heap, hmm, data, ret, ncalls, em>>

\* while delta > PERPLEXITY_TH
LoopTest ==
    /\ pc = "while"
    /\ pc' = IF ExceedsTh(em.delta) THEN "decode" ELSE "final"
    /\ UNCHANGED <<heap, hmm, data, ret, ncalls, em>>

\* the two for loops of the body: every sentence of train_input and of
\* test_input is decoded by viterbi_decode
EMDecode ==
    /\ pc = "decode"
    /\ LET tr == DecodeAll(self_, em.train_input, 1)
           te == DecodeAll(self_, em.test_input, 1)
       IN  IF ~tr.ok THEN pc' = "error" /\ em' = [em EXCEPT !.err = tr.err]
           ELSE IF ~te.ok THEN pc' = "error" /\ em' = [em EXCEPT !.err = te.err]
           ELSE pc' = "evaluate" /\ em' = [em EXCEPT !.pred_train = tr.val, !.pred_test = te.val]
    /\ UNCHANGED <<heap, hmm, data, ret, ncalls>>

\* new_perplexity = get_perplexity(pred_test); delta = old_perplexity -
\* new_perplexity; print('Perplexity', new_perplexity, ...), which printed
\* collects; old_perplexity = new_perplexity
EMEvaluate ==
    /\ pc = "evaluate"
    /\ LET r == get_perplexity(em.pred_test)
       IN  IF ~r.ok THEN pc' = "error" /\ em' = [em EXCEPT !.err = r.err]
           ELSE /\ pc' = "retrain"
                /\ em' = [em EXCEPT !.new_perplexity = r.val,
                                     !.delta = Minus(em.old_perplexity, r.val),
                                     !.old_perplexity = r.val,
                                     !.printed = Append(@, r.val),
                                     !.evaluated = hmm]
    /\ UNCHANGED <<heap, hmm, data, ret, ncalls>>

\* new_train_set, new_tags = list(set(...)); hmm = HMM(vocab, new_tags);
\* hmm.train(new_train_set); then back to the loop test
EMRetrain ==
    /\ pc = "retrain"
    /\ LET both == em.pred_train \o em.pred_test
           new_train_set == [i \in DOMAIN both |-> both[i][1]]
       IN  \E new_tags \in ListOfSet(TagsOf(new_train_set)) :
              LET r == NewTrained(em.vocab, new_tags, new_train_set)
              IN  /\ heap' = Append(heap, r.self)
                  /\ hmm' = Len(heap) + 1
                  /\ pc' = IF r.ok THEN "while" ELSE "error"
                  /\ em' = [em EXCEPT !.err = r.err]
    /\ UNCHANGED <<data, ret, ncalls>>

\* a call of a decoder on a sentence of test_input, as the baseline cell
\* (greedy_decode, fast_viterbi_decode) and the final cell (viterbi_decode)
\* make them
CellCall(ex) ==
    /\ pc \in {"baseline_decode", "final"}
    /\ ret.op = ""
    /\ \/ LET r == greedy_decode(self_, ex)
          IN  /\ heap' = [heap EXCEPT ![hmm] = r.self]
              /\ ret' = [r.res EXCEPT !.op = "greedy_decode", !.arg = ex]
       \/ /\ ret' = [viterbi_decode(self_, ex) EXCEPT !.op = "viterbi_decode", !.arg = ex]
          /\ heap' = heap
       \/ /\ ret' = [fast_viterbi_decode(self_, ex) EXCEPT !.op = "fast_viterbi_decode", !.arg = ex]
          /\ heap' = heap
    /\ UNCHANGED <<hmm, data, ncalls, pc, em>>

\* the cell is done with the result
CellDrop ==
    /\ pc \in {"baseline_decode", "final"}
    /\ ret.op # ""
    /\ ret' = NoResult
    /\ UNCHANGED <<heap, hmm, data, ncalls, pc, em>>

NextEM ==
    \/ Baseline
    \/ EMStart
    \/ LoopTest
    \/ EMDecode
    \/ EMEvaluate
    \/ EMRetrain
    \/ \E i \in DOMAIN em.test_input : CellCall(em.test_input[i])
    \/ CellDrop

InitEM == InitEMOf(EMSents, EMTokens)

SpecEM == InitEM /\ [][NextEM]_vars

\* a statement that is reached is executed: weak fairness of the statement at
\* program point `at`. WF_vars(A) is []<>~ENABLED <<A>>_vars \/ []<><<A>>_vars;
\* a statement of the loop body has no guard but its program point and always
\* leaves it, so ENABLED <<A>>_vars is pc = at and both disjuncts say that the
\* run is again and again away from `at`
Executed(at) == []<>(pc # at)

\* the hard EM cell as the interpreter runs it: once started, it runs
\* statement by statement, the loop test (WF_vars(LoopTest)) and the three
\* steps of the body
FairSpecEM ==
    /\ InitEM
    /\ [][NextEM]_vars
    /\ WF_vars(LoopTest)
    /\ Executed("decode")
    /\ Executed("evaluate")
    /\ Executed("retrain")

InitEMWide == InitEMOf(WideSents, WideTokens)

SpecEMWide == InitEMWide /\ [][NextEM]_vars

---------------------------------------------------------------------------
(* The registry. *)

\* the words of the list the registry was built from
ListWords(self) == SubSeq(self.emissions, 1, Len(self.emissions) - 1)

\* C6: in a registry built from a list of V distinct words, every word of the
\* list has its list position as id and that id decodes to the word, the
\* sentinel "<UNK>" has the last id V, and data2i encodes every word of a
\* sentence without failing: a word of the list to its id, any other word to
\* the id V, which decodes to "<UNK>".
RegistryRoundTrip ==
    LET self == self_
        V == Len(ListWords(self))
    IN  /\ \A j \in 1..V : self.w2i[ListWords(self)[j]] = j - 1 /\ I2W(self, j - 1) = ListWords(self)[j]
        /\ self.w2i[UNK] = V
        /\ I2W(self, V) = UNK
        /\ (ret.op = "data2i" /\ ret.arg # <<>>) =>
              /\ ret.ok
              /\ \A p \in DOMAIN ret.arg :
                    LET w == ret.arg[p][1]
                        id == ret.idx[1][p]
                    IN  IF w \in Range(ListWords(self))
                        THEN I2W(self, id) = w /\ ListWords(self)[id + 1] = w
                        ELSE id = V /\ I2W(self, id) = UNK

\* a sentence with a word of the list and a word outside it has been encoded
RegistryWitness ==
    /\ ret.op = "data2i"
    /\ Len(ListWords(self_)) = MaxVocab
    /\ \E p, q \in DOMAIN ret.arg :
          /\ ret.arg[p][1] \in Range(ListWords(self_))
          /\ ret.arg[q][1] \notin Range(self_.emissions)

---------------------------------------------------------------------------
(* Training. *)

\* the id of a word as the claim gives it: its position in the vocabulary
\* list, the unknown id for any other word
WordId(self, w) ==
    IF \E j \in DOMAIN ListWords(self) : ListWords(self)[j] = w
    THEN (CHOOSE j \in DOMAIN ListWords(self) : ListWords(self)[j] = w) - 1
    ELSE Len(ListWords(self))


TagsKnown(self, corpus) ==
    \A x \in Positions(corpus) : corpus[x[1]][x[2]][2] \in Range(self.states)

\* the smoothed counts the claim states, for the tag ids t, q and the word id w
EmissionCount(self, corpus, t, w) ==
    1 + Cardinality({x \in Positions(corpus) :
                        /\ corpus[x[1]][x[2]][2] = self.states[t + 1]
                        /\ WordId(self, corpus[x[1]][x[2]][1]) = w})

InitCount(self, corpus, t) ==
    1 + Cardinality({e \in DOMAIN corpus :
                        Len(corpus[e]) > 0 /\ corpus[e][1][2] = self.states[t + 1]})

TransitionCount(self, corpus, q, t) ==
    1 + Cardinality({x \in Positions(corpus) :
                        /\ x[2] > 1
                        /\ corpus[x[1]][x[2] - 1][2] = self.states[q + 1]
                        /\ corpus[x[1]][x[2]][2] = self.states[t + 1]})

\* the tables hold the logarithm of count / (sum of the counts of the row)
CountsAsClaimed(self, corpus) ==
    LET S == 0..(Len(self.states) - 1)
        W == 0..(Len(self.emissions) - 1)
        sumE(t) == SumSeq([w \in 1..Len(self.emissions) |-> EmissionCount(self, corpus, t, w - 1)])
        sumT(q) == SumSeq([t \in 1..Len(self.states) |-> TransitionCount(self, corpus, q, t - 1)])
        sumI == SumSeq([t \in 1..Len(self.states) |-> InitCount(self, corpus, t - 1)])
    IN  /\ \A t \in S : \A w \in W :
              self.emission_prob[t][w] = [n |-> EmissionCount(self, corpus, t, w), d |-> sumE(t)]
        /\ \A t \in S : self.init_prob[0][t] = [n |-> InitCount(self, corpus, t), d |-> sumI]
        /\ \A q \in S : \A t \in S :
              self.transition_prob[q][t] = [n |-> TransitionCount(self, corpus, q, t), d |-> sumT(q)]

\* C4: for every tagged corpus whose tags are all in the registry, train
\* returns and leaves the tables of the counts: emission[t][w] is 1 + the
\* number of positions where the word with id w (the unknown id for a word
\* outside the vocabulary) carries tag t, init[t] is 1 + the number of
\* non-empty sentences that start with tag t, transition[q][t] is 1 + the
\* number of adjacent positions of one sentence tagged (q, t), each
\* normalised by the sum of its row.
TrainCounts ==
    (ret.op = "train" /\ TagsKnown(self_, ret.arg)) =>
        (ret.ok /\ CountsAsClaimed(self_, ret.arg))

\* what holds of the code: the same, for the calls of train that return, which
\* are those on a corpus whose first sentence is not empty
TrainCountsWhenReturned ==
    /\ (ret.op = "train" /\ ret.ok) => CountsAsClaimed(self_, ret.arg)
    /\ (ret.op = "train" /\ TagsKnown(self_, ret.arg)) =>
          (ret.ok <=> (ret.arg # <<>> /\ ret.arg[1] # <<>>))

Cells(arr) == UNION {{<<r, c>> : c \in DOMAIN arr[r]} : r \in DOMAIN arr}

\* the cells of a table are logarithms of positive probabilities that sum to 1
\* on every row
RowsNormalised(arr) ==
    /\ \A x \in Cells(arr) :
          /\ arr[x[1]][x[2]].n >= 1
          /\ arr[x[1]][x[2]].n <= arr[x[1]][x[2]].d
    /\ \A r \in DOMAIN arr :
          /\ \A c \in DOMAIN arr[r] : arr[r][c].d = arr[r][0].d
          /\ NpSum([c \in DOMAIN arr[r] |-> arr[r][c].n]) = arr[r][0].d

\* C5: after a call of train that returned, every smoothed count of init,
\* emission and transition is >= 1, so every probability is positive and at
\* most 1 (every logarithm is finite and <= 0), and the probabilities of
\* every row of the three tables sum to 1.
TrainedTablesNormalised ==
    (ret.op = "train" /\ ret.ok) =>
        /\ RowsNormalised(self_.init_prob)
        /\ RowsNormalised(self_.emission_prob)
        /\ RowsNormalised(self_.transition_prob)

\* train returned on a corpus that leaves some cells unobserved and others not
TrainedWitness ==
    /\ ret.op = "train" /\ ret.ok
    /\ \E x \in Cells(self_.emission_prob) : self_.emission_prob[x[1]][x[2]].n = 1
    /\ \E x \in Cells(self_.emission_prob) : self_.emission_prob[x[1]][x[2]].n > 1
    /\ \E x \in Cells(self_.transition_prob) : self_.transition_prob[x[1]][x[2]].n > 1

\* C7: train called twice on one object with the same corpus leaves the
\* tables that one call of train on a newly built object leaves.
TrainTwiceAsOnce ==
    ncalls >= 2 =>
        LET fresh == HMMInit(ListWords(self_), self_.states)
        IN  /\ self_.init_prob = train(fresh, data).self.init_prob
            /\ self_.emission_prob = train(fresh, data).self.emission_prob
            /\ self_.transition_prob = train(fresh, data).self.transition_prob

\* the second call of train has returned, on a corpus with observations
TrainTwiceWitness ==
    /\ ncalls = 2 /\ ret.op = "train" /\ ret.ok
    /\ \E x \in Cells(self_.transition_prob) : self_.transition_prob[x[1]][x[2]].n > 1

---------------------------------------------------------------------------
(* Decoding. *)

\* train has returned on the object: its init row is normalised
Trained(self) == self.init_prob[0][0].d > 1

Decoders == {"greedy_decode", "viterbi_decode", "fast_viterbi_decode"}

\* the word ids of a sentence
Ids(self, ex) == [p \in DOMAIN ex |-> WordId(self, ex[p][1])]

\* the joint score of the state sequence s (a sequence of state ids) and the
\* word ids ex: init[s_0] + emission[s_0, w_0] + the sum over i >= 1 of
\* (transition[s_(i-1), s_i] + emission[s_i, w_i])
RECURSIVE JointFrom(_, _, _, _)
JointFrom(self, ex, s, i) ==
    IF i > Len(ex) THEN Zero
    ELSE LAdd(LAdd(self.transition_prob[s[i - 1]][s[i]], self.emission_prob[s[i]][ex[i]]),
              JointFrom(self, ex, s, i + 1))

Joint(self, ex, s) ==
    LAdd(LAdd(self.init_prob[0][s[1]], self.emission_prob[s[1]][ex[1]]), JointFrom(self, ex, s, 2))

StateSeqs(self, T) == [1..T -> 0..(Len(self.states) - 1)]

\* C1: for every sentence of length T >= 1, viterbi_decode and
\* fast_viterbi_decode fill the same trellis and the same back-pointers in
\* every cell, ties included, and return the same tagged path and the same
\* log-probability.
ViterbiVariantsAgree ==
    /\ (ret.op = "viterbi_decode" /\ Len(ret.arg) >= 1) =>
          LET f == fast_viterbi_decode(self_, ret.arg)
          IN  /\ ret.ok /\ f.ok
              /\ ret.trellis = f.trellis
              /\ ret.back_pointers = f.back_pointers
              /\ ret.out = f.out
              /\ ret.log_prob = f.log_prob
    /\ (ret.op = "fast_viterbi_decode" /\ Len(ret.arg) >= 1) =>
          LET v == viterbi_decode(self_, ret.arg)
          IN  /\ ret.ok /\ v.ok
              /\ ret.trellis = v.trellis
              /\ ret.back_pointers = v.back_pointers
              /\ ret.out = v.out
              /\ ret.log_prob = v.log_prob

\* a cell (j, i) of a Viterbi call where source states tie for the
\* maximum and give way to a source state that does not
TieCell(j, i) ==
    LET x == Candidates(self_, Ids(self_, ret.arg), ret.trellis, i, j)
    IN  /\ \E k \in DOMAIN x : k # ArgMax(x) /\ LEq(x[k], Max(x))
        /\ \E k \in DOMAIN x : LLess(x[k], Max(x))

\* fast_viterbi_decode has returned on a trained model and a sentence of the
\* longest length, with a tie and a non-tie among the source states of a cell
ViterbiAgreeWitness ==
    /\ ret.op = "fast_viterbi_decode" /\ ret.ok
    /\ Trained(self_)
    /\ Len(ret.arg) = MaxLen
    /\ \E j \in DOMAIN ret.trellis : \E i \in 1..(MaxLen - 1) : TieCell(j, i)

\* C2: the log-probability viterbi_decode returns is the maximum of the joint
\* score over all S^T state sequences, and the tag sequence it returns, read
\* off the back-pointers, has that joint score.
ViterbiOptimal ==
    (ret.op = "viterbi_decode" /\ ret.ok) =>
        LET ex == Ids(self_, ret.arg)
        IN  /\ \A s \in StateSeqs(self_, Len(ex)) : ~LLess(ret.log_prob, Joint(self_, ex, s))
            /\ \E s \in StateSeqs(self_, Len(ex)) : LEq(ret.log_prob, Joint(self_, ex, s))
            /\ LEq(Joint(self_, ex, ret.output), ret.log_prob)
            /\ ret.out = [p \in DOMAIN ex |-> <<I2W(self_, ex[p]), I2S(self_, ret.output[p])>>]

\* viterbi_decode has returned on a trained model and a sentence of the
\* longest length, and the path it returns does not start in the state that
\* is best for the first word alone
ViterbiOptimalWitness ==
    /\ ret.op = "viterbi_decode" /\ ret.ok
    /\ Trained(self_)
    /\ Len(ret.arg) = MaxLen
    /\ ret.output[1] # ArgMax(Column(ret.trellis, 0))

\* the score of the source state k for the cell (j, i) of the trellis returned
Score(k, j, i) ==
    LAdd(LAdd(ret.trellis[k][i - 1], self_.transition_prob[k][j]),
         self_.emission_prob[j][Ids(self_, ret.arg)[i + 1]])

\* C11: in both Viterbi variants the back-pointer of every cell (j, i) with
\* i >= 1 is a state id in 0..S-1, and the lowest one among the source states
\* with the maximum score; the path ends in the lowest state with the maximum
\* of the last column; every state of the path is read from a back-pointer of
\* a column >= 1, and column 0 keeps its sentinel -1.
LowestIdTieBreak ==
    (ret.op \in {"viterbi_decode", "fast_viterbi_decode"} /\ ret.ok) =>
        LET S == 0..(Len(self_.states) - 1)
            T == Len(ret.arg)
        IN  /\ \A j \in S : \A i \in 1..(T - 1) :
                  LET b == ret.back_pointers[j][i]
                  IN  /\ b \in S
                      /\ \A k \in S : ~LLess(Score(b, j, i), Score(k, j, i))
                      /\ \A k \in S : k < b => LLess(Score(k, j, i), Score(b, j, i))
            /\ ret.output[T] \in S
            /\ \A k \in S : ~LLess(ret.trellis[ret.output[T]][T - 1], ret.trellis[k][T - 1])
            /\ \A k \in S : k < ret.output[T] =>
                                LLess(ret.trellis[k][T - 1], ret.trellis[ret.output[T]][T - 1])
            /\ \A j \in S : ret.back_pointers[j][0] = -1
            /\ \A p \in 1..T : ret.output[p] \in S
            /\ \A p \in 1..(T - 1) : ret.output[p] = ret.back_pointers[ret.output[p + 1]][p]

\* viterbi_decode has returned on a trained model and a sentence of the
\* longest length; a higher source state ties with the back-pointer of a cell
\* of the path, and a higher state ties with the last state of the path
LowestIdWitness ==
    /\ ret.op = "viterbi_decode" /\ ret.ok
    /\ Trained(self_)
    /\ Len(ret.arg) = MaxLen
    /\ \E i \in 1..(MaxLen - 1) : \E k \in DOMAIN ret.trellis :
          /\ k > ret.output[i]
          /\ LEq(Score(k, ret.output[i + 1], i), Score(ret.output[i], ret.output[i + 1], i))
    /\ \E k \in DOMAIN ret.trellis :
          /\ k > ret.output[MaxLen]
          /\ LEq(ret.trellis[k][MaxLen - 1], ret.trellis[ret.output[MaxLen]][MaxLen - 1])

\* C8: a decoder called on the empty sentence fails with an error and returns
\* neither a tagged output nor a score.
EmptySentenceFails ==
    (ret.op \in Decoders /\ ret.arg = <<>>) => (~ret.ok /\ ret.err = "IndexError")

\* greedy_decode, whose loop would not run, has been called on the empty
\* sentence
EmptySentenceWitness == ret.op = "greedy_decode" /\ ret.arg = <<>> /\ Trained(self_)

\* C10: greedy_decode on a sentence of length T >= 1 keeps a vector that is
\* init + emission[:, w_0] at position 0; at every position it picks the
\* first state with the maximum of the vector, after the emission of the
\* word has been added, and resets the vector to that maximum +
\* transition[chosen, :] for the next position; the score it returns is the
\* last maximum, which is the joint score of the tag sequence it returns.
GreedyAsDescribed ==
    (ret.op = "greedy_decode" /\ Len(ret.arg) >= 1) =>
        LET self == self_
            ex == Ids(self, ret.arg)
            T == Len(ex)
            S == 0..(Len(self.states) - 1)
        IN  /\ ret.ok
            /\ Len(ret.trace) = T /\ Len(ret.output) = T
            /\ \A j \in S : LEq(ret.trace[1][j],
                                  LAdd(self.init_prob[0][j], self.emission_prob[j][ex[1]]))
            /\ \A p \in 1..T :
                  /\ \A j \in S : ~LLess(ret.trace[p][ret.output[p]], ret.trace[p][j])
                  /\ \A j \in S : j < ret.output[p] => LLess(ret.trace[p][j], ret.trace[p][ret.output[p]])
            /\ \A p \in 2..T : \A j \in S :
                  LEq(ret.trace[p][j],
                      LAdd(LAdd(ret.trace[p - 1][ret.output[p - 1]],
                                self.transition_prob[ret.output[p - 1]][j]),
                           self.emission_prob[j][ex[p]]))
            /\ LEq(ret.log_prob, ret.trace[T][ret.output[T]])
            /\ LEq(ret.log_prob, Joint(self, ex, ret.output))
            /\ ret.out = [p \in DOMAIN ex |-> <<I2W(self, ex[p]), I2S(self, ret.output[p])>>]

\* greedy_decode has returned on a trained model and a sentence of the longest
\* length, broke a tie, and did not find the best path
GreedyWitness ==
    /\ ret.op = "greedy_decode" /\ ret.ok
    /\ Trained(self_)
    /\ Len(ret.arg) = MaxLen
    /\ \E p \in DOMAIN ret.trace : \E j \in DOMAIN ret.trace[p] :
          j # ret.output[p] /\ LEq(ret.trace[p][j], ret.trace[p][ret.output[p]])
    /\ LLess(ret.log_prob, viterbi_decode(self_, ret.arg).log_prob)

---------------------------------------------------------------------------
(* The hard EM loop. *)

\* C3: once an evaluation yields delta <= PERPLEXITY_TH no retraining follows
\* it: a retraining is only ever about to start with delta above the
\* threshold, and when the loop is left the current model is the one that
\* decoded the data of the last evaluation.
NoRetrainAfterConvergence ==
    /\ pc = "retrain" => ExceedsTh(em.delta)
    /\ pc = "final" => hmm = em.evaluated

\* C9: no step of the notebook changes a model object that exists: the
\* decoder calls of the baseline cell and of the final cell, in any number and
\* order, leave the tables and the registry of the model as they are, and the
\* loop binds hmm to a new object whenever it builds or retrains a model.
ModelsImmutable ==
    [][/\ \A o \in DOMAIN heap : o \in DOMAIN heap' /\ heap'[o] = heap[o]
       /\ hmm' # hmm => hmm' \notin DOMAIN heap]_vars

\* the loop has retrained at least once and come to its end, and
\* greedy_decode has returned on a sentence of test_input
ModelsImmutableWitness ==
    /\ pc = "final"
    /\ Len(heap) >= 3
    /\ ret.op = "greedy_decode" /\ ret.ok
    /\ Len(ret.arg) >= 2

\* C12: every perplexity the loop prints is at most the one printed by the
\* iteration before it.
PerplexityNonIncreasing ==
    \A i \in 2..Len(em.printed) : PPLeq(em.printed[i], em.printed[i - 1])

\* what the loop test does give: every perplexity printed, but for the last one,
\* is below the one printed before it
OnlyLastMayRise ==
    \A i \in 2..(Len(em.printed) - 1) : ~PPLeq(em.printed[i - 1], em.printed[i])

\* the sentences the loop has decoded last, with their tags
Decoded == [i \in DOMAIN (em.pred_train \o em.pred_test) |-> (em.pred_train \o em.pred_test)[i][1]]

\* C13: a model the loop has retrained has as its tags exactly the tags of
\* the Viterbi output over train_input and test_input it was trained on, each
\* once, and every model of the run has the words of vocab, in the order of
\* vocab, followed by UNK.
RetrainedTagSet ==
    /\ (pc \in {"while", "decode", "final"} /\ hmm >= 3) =>
          /\ Range(heap[hmm].states) = {Decoded[x[1]][x[2]][2] : x \in Positions(Decoded)}
          /\ Cardinality(Range(heap[hmm].states)) = Len(heap[hmm].states)
          /\ DOMAIN heap[hmm].s2i = Range(heap[hmm].states)
    /\ \A o \in DOMAIN heap : heap[o].emissions = em.vocab \o <<UNK>>

\* the loop has retrained a model with two tags over two words, twice
RetrainedTagSetWitness ==
    /\ pc = "while" /\ hmm >= 4
    /\ Len(heap[hmm].states) >= 2
    /\ Len(em.vocab) >= 2

Shown(self) ==
    LET tr == DecodeAll(self, em.train_input, 1)
        te == DecodeAll(self, em.test_input, 1)
    IN  [pred_train |-> tr, pred_test |-> te,
         perplexity |-> IF te.ok THEN get_perplexity(te.val) ELSE Raise(te.err)]

\* C15: the EM run is determined by its inputs: at every loop test after a
\* retraining, a run on the same seed set, pools, vocabulary and threshold
\* that has shown the same so far goes on to show the same (the same tagging
\* of both pools, the same perplexity, and with it the same number of
\* iterations and the same final tagging), whatever order
\* list(set(...)) gave the tags of the rebuilt registry.
EMDeterministic ==
    (pc = "while" /\ hmm >= 3) =>
        \A new_tags \in ListOfSet(TagsOf(Decoded)) :
            Shown(NewTrained(em.vocab, new_tags, Decoded).self) = Shown(self_)

====
